---- MODULE Spec2Model ----
(***************************************************************************)
(* Model of src/script.js (coin-panda): a jQuery widget that fetches coin  *)
(* market data, keeps the view state in data attributes of the table       *)
(* element, and re-renders on search, sort and currency events.            *)
(*                                                                         *)
(* Strings are sequences of one-letter strings so that toLowerCase,        *)
(* includes and localeCompare are computed rather than assumed.            *)
(***************************************************************************)
EXTENDS Integers, Sequences, FiniteSets, TLC

VARIABLES
    currency,         \* $table.data("currency")
    sortBy,           \* $table.data("sort-by")
    sort,             \* $table.data("sort")
    search,           \* $table.data("search")
    lastFetchedData,  \* module-level array, script.js:2
    overlay,          \* TRUE while $(".overlay") is visible
    rows,             \* the coins of the <tr> elements in tbody, top to bottom
    rowsCurrency,     \* the currency renderRows read when it drew those rows
    header,           \* per header cell: the "active" class and the sort icon
    inflight,         \* currencies of the requests awaiting an answer, oldest first
    issued,           \* number of requests issued so far
    lastResponse,     \* history: the array the latest resolved request returned
    lastOkCurrency,   \* history: the currency that request was issued for
    prevClick,        \* history: the header click before the latest handler
    last              \* history: the latest handler and the calls it made

vars == <<currency, sortBy, sort, search, lastFetchedData, overlay, rows,
          rowsCurrency, header, inflight, issued, lastResponse,
          lastOkCurrency, prevClick, last>>

----------------------------------------------------------------------------
(* Bounds *)

MaxRequests == 2     \* requests issued in one behaviour, the initial one included

----------------------------------------------------------------------------
(* Domains *)

Currencies == {"usd", "eur"}
Directions == {"asc", "desc"}
Fields == {"market_cap_rank", "name", "current_price"}
StringFields == {"name"}

\* Collation order of the letters used, and the upper-case letters.
Letters == <<"b", "c", "d", "e", "i", "s", "t", "u">>
UpperToLower == ("B" :> "b") @@ ("I" :> "i") @@ ("T" :> "t")

SearchTexts == {<<>>, <<"B", "I">>, <<"u", "s">>}

\* The coins the API knows, with their prices in each currency.
Price == [btc |-> [usd |-> 50, eur |-> 40],
          usd |-> [usd |-> 1,  eur |-> 1],
          bit |-> [usd |-> 1,  eur |-> 2]]

Coin(n, s, r, k, cur) ==
    [name |-> n, symbol |-> s, market_cap_rank |-> r,
     current_price |-> Price[k][cur], vs |-> cur]

Market(cur) ==
    { Coin(<<"B", "i", "t">>, <<"b", "t", "c">>, 1, "btc", cur),
      Coin(<<"T", "e", "t">>, <<"u", "s", "d">>, 2, "usd", cur),
      Coin(<<"b", "i", "t">>, <<"b", "i", "t">>, 3, "bit", cur) }

Range(s) == { s[i] : i \in 1..Len(s) }

\* Every array of distinct elements of S, in every order.
RECURSIVE ArraysOver(_)
ArraysOver(S) ==
    IF S = {} THEN {<<>>}
    ELSE UNION { LET rest == ArraysOver(S \ {x})
                 IN  rest \cup { <<x>> \o a : a \in rest } : x \in S }

\* What getCoinsMarket may resolve to for a currency: any array of distinct
\* coins of the market.
Responses(cur) == ArraysOver(Market(cur))

\* The same, over the two coins whose usd prices tie.
TopResponses(cur) == ArraysOver({ c \in Market(cur) : c.market_cap_rank > 1 })

NoCurrency == "none"
NoClick == [field |-> "none", sortByBefore |-> "none", sortBefore |-> "none",
            defaultSort |-> "none", twoBack |-> "none"]

----------------------------------------------------------------------------
(* String primitives of the runtime *)

toLowerCase(s) ==
    [i \in 1..Len(s) |-> IF s[i] \in DOMAIN UpperToLower THEN UpperToLower[s[i]] ELSE s[i]]

includes(s, sub) ==
    \E i \in 0..(Len(s) - Len(sub)) : SubSeq(s, i + 1, i + Len(sub)) = sub

CollationRank(ch) ==
    LET l == IF ch \in DOMAIN UpperToLower THEN UpperToLower[ch] ELSE ch
    IN  CHOOSE i \in 1..Len(Letters) : Letters[i] = l

\* Letters first (shorter string first on a common prefix) ...
RECURSIVE ComparePrimary(_, _)
ComparePrimary(a, b) ==
    IF a = <<>> /\ b = <<>> THEN 0
    ELSE IF a = <<>> THEN -1
    ELSE IF b = <<>> THEN 1
    ELSE IF CollationRank(Head(a)) < CollationRank(Head(b)) THEN -1
    ELSE IF CollationRank(Head(a)) > CollationRank(Head(b)) THEN 1
    ELSE ComparePrimary(Tail(a), Tail(b))

\* ... then case, lower before upper, at the first position that differs.
RECURSIVE CompareCase(_, _)
CompareCase(a, b) ==
    IF a = <<>> \/ b = <<>> THEN 0
    ELSE IF Head(a) = Head(b) THEN CompareCase(Tail(a), Tail(b))
    ELSE IF Head(a) \in DOMAIN UpperToLower THEN 1
    ELSE -1

localeCompare(a, b) ==
    IF ComparePrimary(a, b) # 0 THEN ComparePrimary(a, b) ELSE CompareCase(a, b)

----------------------------------------------------------------------------
(* Table Renderer *)

\* As sortByColumn, but the descending branch for strings compares in the
\* ascending order.
sortByColumnStringsAscending(sb, dir, a, b) ==
    IF sb \in StringFields
    THEN localeCompare(a[sb], b[sb])
    ELSE IF dir = "asc" THEN a[sb] - b[sb] ELSE b[sb] - a[sb]

\* The comparator of script.js:147-155.
sortByColumn(sb, dir, a, b) ==
    IF sb \in StringFields
    THEN IF dir = "asc" THEN localeCompare(a[sb], b[sb]) ELSE localeCompare(b[sb], a[sb])
    ELSE IF dir = "asc" THEN a[sb] - b[sb] ELSE b[sb] - a[sb]

\* As filterBySearch, but the search text is not lower-cased.
filterBySearchCaseSensitiveText(text, coin) ==
    \/ includes(toLowerCase(coin.name), text)
    \/ includes(toLowerCase(coin.symbol), text)

filterBySearch(text, coin) ==
    \/ includes(toLowerCase(coin.name), toLowerCase(text))
    \/ includes(toLowerCase(coin.symbol), toLowerCase(text))

\* Array.prototype.sort with a comparator: a stable sort.
RECURSIVE InsertSorted(_, _, _, _)
InsertSorted(x, s, sb, dir) ==
    IF s = <<>> THEN <<x>>
    ELSE IF sortByColumn(sb, dir, Head(s), x) > 0 THEN <<x>> \o s
    ELSE <<Head(s)>> \o InsertSorted(x, Tail(s), sb, dir)

RECURSIVE ArraySort(_, _, _)
ArraySort(data, sb, dir) ==
    IF data = <<>> THEN <<>>
    ELSE InsertSorted(data[Len(data)], ArraySort(SubSeq(data, 1, Len(data) - 1), sb, dir), sb, dir)

ArrayFilter(data, text) == SelectSeq(data, LAMBDA coin : filterBySearch(text, coin))

\* As updateHeader, but the cells of the other columns are left as they are.
updateHeaderNoClear(currentSortBy, currentSort) ==
    [f \in Fields |->
        IF f = currentSortBy
        THEN [active |-> TRUE, icon |-> IF currentSort = "desc" THEN "down" ELSE "up"]
        ELSE header[f]]

updateHeader(currentSortBy, currentSort) ==
    [f \in Fields |->
        IF f = currentSortBy
        THEN [active |-> TRUE, icon |-> IF currentSort = "desc" THEN "down" ELSE "up"]
        ELSE [active |-> FALSE, icon |-> ""]]

\* As renderTable, but the array is narrowed in place to the matching records.
renderTableKeepsFiltered(data) ==
    LET sortedData == ArraySort(data, sortBy', sort')
        filteredData == ArrayFilter(sortedData, search')
    IN  /\ lastFetchedData' = filteredData
        /\ rows' = filteredData
        /\ rowsCurrency' = currency'
        /\ header' = updateHeader(sortBy', sort')

\* renderTable(data), reading the view state as the handler left it.  sort()
\* works in place and every caller passes the array lastFetchedData refers
\* to, so the sorted order is also the new order of lastFetchedData.
renderTable(data) ==
    LET sortedData == ArraySort(data, sortBy', sort')
        filteredData == ArrayFilter(sortedData, search')
    IN  /\ lastFetchedData' = sortedData
        /\ rows' = filteredData
        /\ rowsCurrency' = currency'
        /\ header' = updateHeader(sortBy', sort')

----------------------------------------------------------------------------
(* Interaction Controller *)

\* As fetchAndRenderTableBegin, but with the currency read before the click
\* handler stored the new one.
fetchAndRenderTableBeginStaleCurrency ==
    /\ overlay' = TRUE
    /\ inflight' = Append(inflight, currency)
    /\ issued' = issued + 1

\* fetchAndRenderTable up to its await: read the currency, show the overlay,
\* issue the request.
fetchAndRenderTableBegin ==
    /\ overlay' = TRUE
    /\ inflight' = Append(inflight, currency')
    /\ issued' = issued + 1

\* As fetchAndRenderTableResume, but without the renderTable call.
fetchAndRenderTableResumeNoRender(data) ==
    /\ overlay' = FALSE
    /\ lastFetchedData' = data
    /\ UNCHANGED <<rows, rowsCurrency, header>>

\* fetchAndRenderTable after its await resolved with data.
fetchAndRenderTableResume(data) ==
    /\ overlay' = FALSE
    /\ renderTable(data)

Called(op, args, made) == [op |-> op, arg |-> args, calls |-> made]

\* As updateSearch, but re-fetching like updateCurrency instead of rendering
\* the stored array.
updateSearchRefetch(value) ==
    /\ search' = value
    /\ UNCHANGED <<currency, sortBy, sort>>
    /\ fetchAndRenderTableBegin
    /\ UNCHANGED <<lastFetchedData, rows, rowsCurrency, header>>
    /\ last' = Called("updateSearch", value, <<"show", "getCoinsMarket">>)

updateSearch(value) ==
    /\ search' = value
    /\ UNCHANGED <<currency, sortBy, sort>>
    /\ renderTable(lastFetchedData)
    /\ UNCHANGED <<overlay, inflight, issued>>
    /\ last' = Called("updateSearch", value, <<"renderTable">>)

updateCurrency(cur) ==
    /\ currency' = cur
    /\ UNCHANGED <<sortBy, sort, search>>
    /\ fetchAndRenderTableBegin
    /\ UNCHANGED <<lastFetchedData, rows, rowsCurrency, header>>
    /\ last' = Called("updateCurrency", <<cur>>, <<"show", "getCoinsMarket">>)

\* As newOrderBy, but a new column keeps the direction of the old one.
newOrderByKeepsDirection(currentSortBy, currentSort, newSortBy, defaultSort) ==
    IF currentSortBy = newSortBy
    THEN IF currentSort = "desc" THEN "asc" ELSE "desc"
    ELSE currentSort

\* As newOrderBy, but the active column only ever goes from asc to desc.
newOrderByNoFlipBack(currentSortBy, currentSort, newSortBy, defaultSort) ==
    IF currentSortBy = newSortBy
    THEN "desc"
    ELSE defaultSort

newOrderBy(currentSortBy, currentSort, newSortBy, defaultSort) ==
    IF currentSortBy = newSortBy
    THEN IF currentSort = "desc" THEN "asc" ELSE "desc"
    ELSE defaultSort

updateSort(newSortBy, defaultSort) ==
    /\ sortBy' = newSortBy
    /\ sort' = newOrderBy(sortBy, sort, newSortBy, defaultSort)
    /\ UNCHANGED <<currency, search>>
    /\ renderTable(lastFetchedData)
    /\ UNCHANGED <<overlay, inflight, issued>>
    /\ last' = Called("updateSort", <<newSortBy, defaultSort>>, <<"renderTable">>)

----------------------------------------------------------------------------
(* Events *)

Remove(s, i) == SubSeq(s, 1, i - 1) \o SubSeq(s, i + 1, Len(s))

\* $("#search").on("input", ...)
SearchInput(value) ==
    /\ updateSearch(value)
    /\ UNCHANGED <<lastResponse, lastOkCurrency, prevClick>>

\* $("#reset-search").click(...)
ResetSearchClick ==
    /\ updateSearch(<<>>)
    /\ UNCHANGED <<lastResponse, lastOkCurrency, prevClick>>

\* $("[data-sort-column]").click(...): the field and the default direction
\* are read from the clicked header cell.
SortColumnClick(newSortBy, defaultSort) ==
    /\ updateSort(newSortBy, defaultSort)
    /\ prevClick' = [field |-> newSortBy, sortByBefore |-> sortBy, sortBefore |-> sort,
                     defaultSort |-> defaultSort,
                     twoBack |-> IF prevClick.field = newSortBy
                                    /\ prevClick.sortByBefore = newSortBy
                                 THEN prevClick.sortBefore ELSE "none"]
    /\ UNCHANGED <<lastResponse, lastOkCurrency>>

\* $("[data-set-currency]").click(...)
SetCurrencyClick(cur) ==
    /\ issued < MaxRequests
    /\ updateCurrency(cur)
    /\ UNCHANGED <<lastResponse, lastOkCurrency, prevClick>>

\* As FetchResolved, but a response for a currency that is no longer selected
\* is dropped after the overlay is hidden.
FetchResolvedDropsStale(i, data) ==
    /\ i \in 1..Len(inflight)
    /\ inflight' = Remove(inflight, i)
    /\ UNCHANGED <<currency, sortBy, sort, search, issued>>
    /\ IF inflight[i] = currency
       THEN fetchAndRenderTableResume(data)
       ELSE overlay' = FALSE /\ UNCHANGED <<lastFetchedData, rows, rowsCurrency, header>>
    /\ lastResponse' = data
    /\ lastOkCurrency' = inflight[i]
    /\ last' = Called("resolved", <<inflight[i], lastOkCurrency>>, <<"hide", "renderTable">>)
    /\ UNCHANGED prevClick

\* The request at position i of inflight resolves with the array data.  The
\* history keeps the currency of the request and of the resolution before it.
FetchResolved(i, data) ==
    /\ i \in 1..Len(inflight)
    /\ inflight' = Remove(inflight, i)
    /\ UNCHANGED <<currency, sortBy, sort, search, issued>>
    /\ fetchAndRenderTableResume(data)
    /\ lastResponse' = data
    /\ lastOkCurrency' = inflight[i]
    /\ last' = Called("resolved", <<inflight[i], lastOkCurrency>>, <<"hide", "renderTable">>)
    /\ UNCHANGED prevClick

\* As FetchRejected, but the failure empties the table and the stored array.
FetchRejectedClearsTable(i) ==
    /\ i \in 1..Len(inflight)
    /\ inflight' = Remove(inflight, i)
    /\ last' = Called("rejected", <<inflight[i]>>, <<>>)
    /\ lastFetchedData' = <<>>
    /\ rows' = <<>>
    /\ UNCHANGED <<currency, sortBy, sort, search, overlay,
                   rowsCurrency, header, issued, lastResponse, lastOkCurrency, prevClick>>

\* fetch or response.json() rejects: the await throws and the rest of
\* fetchAndRenderTable never runs.
FetchRejected(i) ==
    /\ i \in 1..Len(inflight)
    /\ inflight' = Remove(inflight, i)
    /\ last' = Called("rejected", <<inflight[i]>>, <<>>)
    /\ UNCHANGED <<currency, sortBy, sort, search, lastFetchedData, overlay, rows,
                   rowsCurrency, header, issued, lastResponse, lastOkCurrency, prevClick>>

\* The page after script.js has run: handlers registered and the initial
\* fetchAndRenderTable() suspended at its await.  The data attributes of the
\* table come from the page markup.
Init ==
    /\ currency \in Currencies
    /\ sortBy \in Fields
    /\ sort \in Directions
    /\ search = <<>>
    /\ lastFetchedData = <<>>
    /\ overlay = TRUE
    /\ rows = <<>>
    /\ rowsCurrency = NoCurrency
    /\ header = [f \in Fields |-> [active |-> FALSE, icon |-> ""]]
    /\ inflight = <<currency>>
    /\ issued = 1
    /\ lastResponse = <<>>
    /\ lastOkCurrency = NoCurrency
    /\ prevClick = NoClick
    /\ last = Called("load", <<currency>>, <<"show", "getCoinsMarket">>)

Next ==
    \/ \E value \in SearchTexts \ {<<>>} : SearchInput(value)
    \/ ResetSearchClick
    \/ \E f \in Fields, d \in Directions : SortColumnClick(f, d)
    \/ \E cur \in Currencies : SetCurrencyClick(cur)
    \/ \E i \in 1..Len(inflight) : \E data \in TopResponses(inflight[i]) : FetchResolved(i, data)
    \/ \E i \in 1..Len(inflight) : FetchRejected(i)

\* The whole widget, with overlapping requests, over the two-coin responses.
Spec == Init /\ [][Next]_vars

NextTable ==
    \/ \E value \in SearchTexts \ {<<>>} : SearchInput(value)
    \/ ResetSearchClick
    \/ \E f \in Fields, d \in Directions : SortColumnClick(f, d)
    \/ \E i \in 1..Len(inflight) : \E data \in Responses(inflight[i]) : FetchResolved(i, data)

\* The table under search and sort events around the initial fetch, over
\* every response the market allows.
SpecTable == Init /\ [][NextTable]_vars

----------------------------------------------------------------------------
(* Properties *)

Count(x, s) == Cardinality({ i \in 1..Len(s) : s[i] = x })
Rendered == Count("renderTable", last.calls) > 0
SameRecords(a, b) == Len(a) = Len(b) /\ Range(a) = Range(b)

\* C1: every render displays rows of a dataset fetched for the currency
\* that is selected, which is the one renderRows formats the prices with.
C1_RenderShowsSelectedCurrency ==
    Rendered => /\ rowsCurrency = currency
                /\ \A i \in 1..Len(rows) : rows[i].vs = rowsCurrency

\* C2: with no fetch in flight and at least one fetch resolved,
\* lastFetchedData holds the records of the latest resolved response and
\* that request was issued for the selected currency.
C2_LastFetchedIsSelectedCurrency ==
    (inflight = <<>> /\ lastOkCurrency # NoCurrency)
        => /\ SameRecords(lastFetchedData, lastResponse)
           /\ lastOkCurrency = currency

\* C3: once every issued request has completed, by success or by failure,
\* the loading indicator is hidden.
C3_OverlayHiddenWhenAllCompleted ==
    inflight = <<>> => ~overlay

\* C4: while at least one request is in flight the loading indicator is shown.
C4_OverlayShownWhileInFlight ==
    inflight # <<>> => overlay

\* C5: a currency selection stores the selected code, issues exactly one
\* request, for that code, with exactly one show of the loading indicator
\* before it; a successful resolution takes one issued request out of flight
\* with exactly one hide and no show.
C5_CurrencySelectionOneFetch ==
    [][ /\ last'.op = "updateCurrency"
           => /\ currency' = last'.arg[1]
              /\ inflight' = Append(inflight, last'.arg[1])
              /\ issued' = issued + 1
              /\ overlay'
              /\ last'.calls = <<"show", "getCoinsMarket">>
        /\ last'.op = "resolved"
           => /\ Len(inflight') = Len(inflight) - 1
              /\ issued' = issued
              /\ ~overlay'
              /\ Count("hide", last'.calls) = 1
              /\ Count("show", last'.calls) = 0
              /\ Count("getCoinsMarket", last'.calls) = 0 ]_vars

\* C5 witness: after the initial fetch resolved, the other currency was
\* selected and its request is the only one in flight.
C5_Witness ==
    /\ last.op = "updateCurrency"
    /\ lastOkCurrency \notin {NoCurrency, currency}
    /\ inflight = <<currency>>
    /\ overlay

Clicked == prevClick.field # "none"

\* C6: after a click on a header other than the active one, sortBy is the
\* clicked field and sortDirection is the default direction that header
\* declares, whatever the direction was before.
C6_OtherHeaderSetsDefault ==
    (Clicked /\ prevClick.field # prevClick.sortByBefore)
        => /\ sortBy = prevClick.field
           /\ sort = prevClick.defaultSort

\* C6 witness: another header was clicked while the direction differed from
\* the default that header declares.
C6_Witness ==
    /\ last.op = "updateSort"
    /\ prevClick.field # prevClick.sortByBefore
    /\ prevClick.sortBefore # prevClick.defaultSort
    /\ sortBy = prevClick.field
    /\ sort = prevClick.defaultSort

\* C7: a click on the active header keeps sortBy and flips sortDirection
\* between asc and desc; after two such clicks in a row on the same header
\* sortDirection is what it was before the two clicks.
C7_SameHeaderFlips ==
    /\ (Clicked /\ prevClick.field = prevClick.sortByBefore)
          => /\ sortBy = prevClick.sortByBefore
             /\ sort \in Directions
             /\ sort # prevClick.sortBefore
    /\ prevClick.twoBack # "none" => sort = prevClick.twoBack

\* C7 witness: the active header was clicked twice in a row.
C7_Witness ==
    /\ last.op = "updateSort"
    /\ prevClick.twoBack \in Directions
    /\ prevClick.field = prevClick.sortByBefore
    /\ sortBy = prevClick.field
    /\ sort = prevClick.twoBack
    /\ sort # prevClick.sortBefore

FoldCase(ch) == IF ch \in DOMAIN UpperToLower THEN UpperToLower[ch] ELSE ch

ContainsIgnoringCase(s, t) ==
    \E i \in 0..(Len(s) - Len(t)) :
        \A k \in 1..Len(t) : FoldCase(s[i + k]) = FoldCase(t[k])

KeyLess(a, b, f) ==
    IF f \in StringFields THEN localeCompare(a[f], b[f]) < 0 ELSE a[f] < b[f]

\* C9: after a render the rows are exactly the records of the rendered
\* dataset whose name or symbol contains searchText case-insensitively, each
\* once, ordered on sortBy: ascending, no row has a smaller key than a row
\* above it; descending, no row has a larger key than a row above it.
C9_RowsFilteredAndSorted ==
    Rendered
        => /\ Range(rows) = { c \in Range(lastResponse) :
                                \/ ContainsIgnoringCase(c.name, search)
                                \/ ContainsIgnoringCase(c.symbol, search) }
           /\ Len(rows) = Cardinality(Range(rows))
           /\ \A i, j \in 1..Len(rows) :
                 i < j => IF sort = "asc"
                          THEN ~KeyLess(rows[j], rows[i], sortBy)
                          ELSE ~KeyLess(rows[i], rows[j], sortBy)

\* C9 witness: an upper-case search kept two of three records, shown on
\* descending names.
C9_Witness ==
    /\ Rendered
    /\ search = <<"B", "I">>
    /\ sortBy = "name"
    /\ sort = "desc"
    /\ Len(lastResponse) = 3
    /\ Len(rows) = 2
    /\ KeyLess(rows[2], rows[1], "name")

Reverse(s) == [i \in 1..Len(s) |-> s[Len(s) + 1 - i]]

DistinctOn(data, f) ==
    \A i, j \in 1..Len(data) : i # j => data[i][f] # data[j][f]

\* C10: with empty search and pairwise distinct values of the active field,
\* toggling the direction of the active column shows the rows in exactly the
\* reverse order, and the descending sort of the fetched dataset is the
\* reverse of its ascending sort.
C10_ToggleReversesRows ==
    [][ ( /\ last'.op = "updateSort"
          /\ sortBy' = sortBy
          /\ search = <<>>
          /\ DistinctOn(lastResponse, sortBy) )
        => /\ rows' = Reverse(rows)
           /\ rows' = ArraySort(lastResponse, sortBy, sort')
           /\ ArraySort(lastResponse, sortBy, "desc")
                 = Reverse(ArraySort(lastResponse, sortBy, "asc")) ]_vars

\* C10 witness: the name column was toggled over three records with
\* distinct names, two of which differ only in case.
C10_Witness ==
    /\ last.op = "updateSort"
    /\ prevClick.field = prevClick.sortByBefore
    /\ sortBy = "name"
    /\ search = <<>>
    /\ Len(rows) = 3
    /\ DistinctOn(rows, "name")
    /\ rows = ArraySort(lastResponse, sortBy, sort)

MatchingRecords(data, text) == { c \in Range(data) : filterBySearch(text, c) }

\* C11: on load, before any event is handled, exactly one request has been
\* issued, for the currency of the view state; when it resolves, the table
\* is rendered once from the response under the unchanged sort and search.
C11_InitialFetchAndRender ==
    [][ /\ last.op = "load"
           => /\ issued = 1
              /\ inflight = <<currency>>
              /\ last.arg = <<currency>>
              /\ Count("getCoinsMarket", last.calls) = 1
              /\ rows = <<>>
        /\ (last.op = "load" /\ last'.op = "resolved")
           => /\ last'.arg[1] = currency
              /\ issued' = 1
              /\ inflight' = <<>>
              /\ Count("renderTable", last'.calls) = 1
              /\ <<sortBy', sort', search', currency'>> = <<sortBy, sort, search, currency>>
              /\ Range(rows') = MatchingRecords(lastResponse', search)
              /\ Len(rows') = Cardinality(Range(rows'))
              /\ \A k \in 1..Len(rows') : rows'[k].vs = currency
              /\ \A j, k \in 1..Len(rows') :
                    j < k => IF sort = "asc"
                             THEN ~KeyLess(rows'[k], rows'[j], sortBy)
                             ELSE ~KeyLess(rows'[j], rows'[k], sortBy) ]_vars

\* C11 witness: the only request issued resolved with two records, drawn
\* under the sort state and empty search the page started with.
C11_Witness ==
    /\ last.op = "resolved"
    /\ last.arg[2] = NoCurrency
    /\ issued = 1
    /\ inflight = <<>>
    /\ ~Clicked
    /\ search = <<>>
    /\ Len(rows) = 2
    /\ rowsCurrency = currency

\* C12: every resolution, also of a request that overlapped another one,
\* stores its response and renders it at once, so the stored array and the
\* rows are those of the request that resolved last, whichever was issued
\* first; no response is dropped.
C12_LastResolvedWins ==
    last.op = "resolved"
        => /\ lastOkCurrency = last.arg[1]
           /\ SameRecords(lastFetchedData, lastResponse)
           /\ \A k \in 1..Len(lastFetchedData) : lastFetchedData[k].vs = last.arg[1]
           /\ Range(rows) = MatchingRecords(lastResponse, search)
           /\ Len(rows) = Cardinality(Range(rows))
           /\ Count("renderTable", last.calls) = 1

\* C12 witness: two overlapping requests both resolved, the one issued
\* first (for the currency since replaced) last, and its records are shown.
C12_Witness ==
    /\ last.op = "resolved"
    /\ issued = 2
    /\ inflight = <<>>
    /\ last.arg[2] = currency
    /\ last.arg[1] # currency
    /\ rows # <<>>
    /\ \A k \in 1..Len(rows) : rows[k].vs = last.arg[1]

\* C13: a render leaves lastFetchedData as it is, order included, so the
\* stored array is always the sequence the last resolved fetch returned.
C13_RenderKeepsStoredSequence ==
    lastFetchedData = lastResponse

\* C14: a rejected request changes nothing: no request is issued, the
\* stored array, the rows, the header and the sort, search and currency
\* attributes stay, and nothing is rendered.
C14_RejectionChangesNothing ==
    [][ last'.op = "rejected"
        => /\ issued' = issued
           /\ Len(inflight') = Len(inflight) - 1
           /\ \A c \in Currencies : Count(c, inflight') <= Count(c, inflight)
           /\ last'.calls = <<>>
           /\ lastFetchedData' = lastFetchedData
           /\ rows' = rows
           /\ rowsCurrency' = rowsCurrency
           /\ header' = header
           /\ <<sortBy', sort', search', currency'>> = <<sortBy, sort, search, currency>> ]_vars

\* C14 witness: the request of a switch to another currency was rejected
\* while rows of the earlier currency were on display.
C14_Witness ==
    /\ last.op = "rejected"
    /\ last.arg[1] = currency
    /\ lastOkCurrency \notin {NoCurrency, currency}
    /\ inflight = <<>>
    /\ rows # <<>>
    /\ lastFetchedData # <<>>

HasRendered == rowsCurrency # NoCurrency

\* C15: once the table has been rendered, a header cell is active exactly
\* when its field is sortBy; the active cell shows the descending icon when
\* sortDirection is desc and the ascending icon otherwise; the other cells
\* show none.
C15_HeaderFollowsSortState ==
    HasRendered
        => \A f \in Fields :
              /\ header[f].active <=> (f = sortBy)
              /\ f = sortBy /\ sort = "desc" => header[f].icon = "down"
              /\ f = sortBy /\ sort # "desc" => header[f].icon = "up"
              /\ f # sortBy => header[f].icon = ""

\* C15 witness: a click moved the sort to another column, descending.
C15_Witness ==
    /\ HasRendered
    /\ last.op = "updateSort"
    /\ prevClick.sortByBefore # sortBy
    /\ sort = "desc"
    /\ header[sortBy] = [active |-> TRUE, icon |-> "down"]
    /\ header[prevClick.sortByBefore] = [active |-> FALSE, icon |-> ""]

\* C16: search inputs, search resets and header clicks keep the records of
\* lastFetchedData, and the render of a search reset shows every one of them.
C16_SearchKeepsRecords ==
    [][ last'.op \in {"updateSearch", "updateSort"}
        => /\ SameRecords(lastFetchedData', lastFetchedData)
           /\ SameRecords(lastFetchedData', lastResponse)
           /\ (last'.op = "updateSearch" /\ search' = <<>>)
                 => SameRecords(rows', lastFetchedData) ]_vars

\* C16 witness: a search that matched nothing of three stored records was
\* reset and all three are shown again.
C16_Witness ==
    /\ last.op = "updateSearch"
    /\ search = <<>>
    /\ Len(lastFetchedData) = 3
    /\ Len(rows) = 3
    /\ \E c \in Range(lastFetchedData) : ~filterBySearch(<<"u", "s">>, c)

====
